---- MODULE Spec2Model ----
(***************************************************************************)
(* A model of rasterizer.go: the scanline triangle rasterizer Rasterize,   *)
(* its sort step multiSwap and the texture-sampling shader made by         *)
(* NewDefaultShader.                                                       *)
(*                                                                         *)
(* float32 values are modelled bit-exactly as far as the model's values    *)
(* go: a float is a record [m, e] standing for m * 2^e with a signed       *)
(* 24-bit mantissa (2^23 <= |m| < 2^24, or m = 0 and e = 0), and every     *)
(* operation rounds to nearest, ties to even, as IEEE 754 binary32 does.   *)
(* The exponent is not limited: within the model's bounds no value comes   *)
(* near the overflow or subnormal range, and no NaN or infinity arises     *)
(* (every division of the source is guarded).  The float operations are    *)
(* written as functions, so that TLC evaluates their arguments once.       *)
(*                                                                         *)
(* Go's int wraps on overflow.  Its width (32 or 64 bits) is far beyond    *)
(* what can be enumerated, so the model's int is the range MinInt..MaxInt  *)
(* with MaxInt a bound of the model; arithmetic wraps at that range        *)
(* exactly as Go's wraps at its own.                                       *)
(***************************************************************************)
EXTENDS Integers, Sequences, FiniteSets, TLC

----------------------------------------------------------------------------
(* Bounds of the model                                                     *)

\* Vertex coordinates of the enumerated triangles are drawn from 0..MaxCoord.
MaxCoord == 3

\* The coordinates of the triangles of the reordering check and of the
\* termination check are drawn from 0..SmallCoord.
SmallCoord == 2

\* The largest value of the model's int (Go: 2^63 - 1 or 2^31 - 1).
MaxInt == 31

\* The default shader's texture is (TexMax + 1) x (TexMax + 1) texels at most.
TexMax == 3

MinInt == -MaxInt - 1

\* Go's wrapping of an int result to the int range.
WrapInt(n) == ((n - MinInt) % (MaxInt - MinInt + 1)) + MinInt

----------------------------------------------------------------------------
(* float32                                                                 *)

\* Bits of a float32 significand (23 stored and the hidden one).
MantBits == 24

Abs(n) == IF n < 0 THEN -n ELSE n

Sgn(n) == IF n < 0 THEN -1 ELSE IF n > 0 THEN 1 ELSE 0

BitLen[n \in Nat] == IF n = 0 THEN 0 ELSE 1 + BitLen[n \div 2]

\* The floats: m * 2^e.
Float == [m : Int, e : Int]

FZero == [m |-> 0, e |-> 0]

\* What a division by zero would give (never reached: the source guards
\* each division).
FNaN == [m |-> 0, e |-> 1]

\* The float32 nearest to s * mag * 2^e (ties to even), for mag >= 0 and
\* s in {-1, 1}.
RoundF[s \in {-1, 0, 1}, mag \in Nat, e \in Int] ==
    IF mag = 0 THEN FZero
    ELSE LET k == BitLen[mag] IN
         IF k <= MantBits
         THEN [m |-> s * mag * 2^(MantBits - k), e |-> e - (MantBits - k)]
         ELSE LET r == k - MantBits
                  q == mag \div 2^r
                  rem == mag % 2^r
                  half == 2^(r - 1)
                  up == rem > half \/ (rem = half /\ q % 2 = 1)
                  q2 == IF up THEN q + 1 ELSE q
              IN IF q2 = 2^MantBits
                 THEN [m |-> s * 2^(MantBits - 1), e |-> e + r + 1]
                 ELSE [m |-> s * q2, e |-> e + r]

\* The float n * 2^e, for the model's literals (1/2 is Dyadic[1, -1]).
Dyadic[n \in Int, e \in Int] == RoundF[Sgn(n), Abs(n), e]

\* float32(n) of an int n.
FromInt[n \in Int] == RoundF[Sgn(n), Abs(n), 0]

FNeg[a \in Float] == [m |-> -a.m, e |-> a.e]

\* a + b in float32: the smaller operand is aligned with three extra bits,
\* the last of them sticky, and the exact sum of those is rounded.
FAdd[a \in Float, b \in Float] ==
    IF a.m = 0 THEN b
    ELSE IF b.m = 0 THEN a
    ELSE LET hi == IF a.e >= b.e THEN a ELSE b
             lo == IF a.e >= b.e THEN b ELSE a
             d == hi.e - lo.e
             B == Abs(lo.m) * 8
             q == IF d > MantBits + 3 THEN 0 ELSE B \div 2^d
             sticky == IF d > MantBits + 3 THEN TRUE ELSE B % 2^d # 0
             Bs == IF sticky /\ q % 2 = 0 THEN q + 1 ELSE q
             S == hi.m * 8 + Sgn(lo.m) * Bs
         IN RoundF[Sgn(S), Abs(S), hi.e - 3]

FSub[a \in Float, b \in Float] == FAdd[a, FNeg[b]]

\* n more quotient bits of the long division of r * 2^n by d (r < d).
DivBits[r \in Nat, d \in Nat, n \in Nat, q \in Nat] ==
    IF n = 0 THEN <<q, r>>
    ELSE IF 2 * r >= d THEN DivBits[2 * r - d, d, n - 1, 2 * q + 1]
         ELSE DivBits[2 * r, d, n - 1, 2 * q]

\* a / b in float32: MantBits + 2 quotient bits and a sticky bit, rounded.
FDiv[a \in Float, b \in Float] ==
    IF b.m = 0 THEN FNaN
    ELSE IF a.m = 0 THEN FZero
    ELSE LET A == Abs(a.m)
             B == Abs(b.m)
             qr == DivBits[A % B, B, MantBits + 2, A \div B]
             M == 2 * qr[1] + (IF qr[2] # 0 THEN 1 ELSE 0)
         IN RoundF[Sgn(a.m) * Sgn(b.m), M, a.e - b.e - (MantBits + 3)]

\* a * b in float32: the exact 48-bit product in two 24-bit limbs, rounded.
FMul[a \in Float, b \in Float] ==
    IF a.m = 0 \/ b.m = 0 THEN FZero
    ELSE LET A == Abs(a.m)
             B == Abs(b.m)
             ah == A \div 4096
             al == A % 4096
             bh == B \div 4096
             bl == B % 4096
             cross == ah * bl + al * bh
             low == al * bl + (cross % 4096) * 4096
             lo == low % 2^MantBits
             hi == ah * bh + cross \div 4096 + low \div 2^MantBits
             s == Sgn(a.m) * Sgn(b.m)
             \* hi * 2^24 + lo, cut to 26 bits and a sticky bit
             top == hi * 4 + lo \div 2^(MantBits - 2)
             st == IF lo % 2^(MantBits - 2) # 0 THEN 1 ELSE 0
         IN RoundF[s, 2 * top + st, a.e + b.e + MantBits - 3]

\* a < b and a # b on floats (no value of the model underflows, so the sign
\* of the rounded difference is the sign of the difference).
FLt[a \in Float, b \in Float] == FSub[a, b].m < 0

\* int(f): Go's conversion truncates toward zero.
Trunc[f \in Float] ==
    IF f.m = 0 THEN 0
    ELSE IF f.e >= 0 THEN f.m * 2^f.e
    ELSE IF -f.e >= MantBits THEN 0
    ELSE Sgn(f.m) * (Abs(f.m) \div 2^(-f.e))

----------------------------------------------------------------------------
(* State                                                                   *)

VARIABLES
    args,     \* the three (x, y, u, v) vertices as passed to Rasterize
    ps,       \* the PixelShader passed: "record" (a shader that notes its
              \* invocations) or "default" (the one NewDefaultShader makes)
    texSize,  \* texture.Bounds().Max of the default shader's texture
    pc,       \* where the call of Rasterize (or of the shader) stands
    loc,      \* the parameters and local variables of Rasterize
    calls,    \* the invocations the recording shader has noted, in order
    target,   \* the default shader's target image: pixel -> colour written
    call,     \* which call of Rasterize this is (the reordering check makes two)
    first     \* the invocations noted during the first call

vars == <<args, ps, texSize, pc, loc, calls, target, call, first>>

Vertex(x, y, u, v) == [x |-> x, y |-> y, u |-> u, v |-> v]

\* Rasterize's frame on entry: the parameters are copies of the arguments,
\* and every local variable has Go's zero value.
Frame(a) ==
    [x0 |-> a[1].x, y0 |-> a[1].y, u0 |-> a[1].u, v0 |-> a[1].v,
     x1 |-> a[2].x, y1 |-> a[2].y, u1 |-> a[2].u, v1 |-> a[2].v,
     x2 |-> a[3].x, y2 |-> a[3].y, u2 |-> a[3].u, v2 |-> a[3].v,
     dxdy1 |-> FZero, dxdu1 |-> FZero, dxdv1 |-> FZero,
     dxdy2 |-> FZero, dxdu2 |-> FZero, dxdv2 |-> FZero,
     dy1 |-> FZero, dy2 |-> FZero,
     dxldy |-> FZero, dxrdy |-> FZero, dxldu |-> FZero,
     dxrdu |-> FZero, dxldv |-> FZero, dxrdv |-> FZero,
     sdx |-> FZero, sdu |-> FZero, sdv |-> FZero,
     edx |-> FZero, edu |-> FZero, edv |-> FZero,
     pu |-> FZero, pv |-> FZero, pDeltaU |-> FZero, pDeltaV |-> FZero,
     y |-> 0, x |-> 0]

----------------------------------------------------------------------------
(* NewDefaultShader                                                        *)

\* The closure NewDefaultShader returns: it captures maxX and maxY.
NewDefaultShader(size) == [maxX |-> size.X - 1, maxY |-> size.Y - 1]

\* Texel with the index wrapped around the texture instead of clamped.
TexelWrapped(sh, u, v) ==
    LET tx == Trunc[FMul[u, FromInt[sh.maxX]]]
        ty == Trunc[FMul[v, FromInt[sh.maxY]]]
    IN <<tx % (sh.maxX + 1), ty % (sh.maxY + 1)>>

\* The texel the closure samples for (u, v): truncated, then clamped.
Texel(sh, u, v) ==
    LET tx == Trunc[FMul[u, FromInt[sh.maxX]]]
        ty == Trunc[FMul[v, FromInt[sh.maxY]]]
        cx == IF tx > sh.maxX THEN sh.maxX ELSE IF tx < 0 THEN 0 ELSE tx
        cy == IF ty > sh.maxY THEN sh.maxY ELSE IF ty < 0 THEN 0 ELSE ty
    IN <<cx, cy>>

\* texture.At(tx, ty): each texel of the texture is a colour of its own.
At(t) == t

\* target.Set(x, y, c).
Set(img, x, y, c) ==
    [p \in DOMAIN img \cup {<<x, y>>} |-> IF p = <<x, y>> THEN c ELSE img[p]]

\* One invocation of the closure: the target after it.
DefaultShade(sh, img, x, y, u, v) == Set(img, x, y, At(Texel(sh, u, v)))

----------------------------------------------------------------------------
(* multiSwap                                                               *)

swapInt(l, a, b) == [l EXCEPT ![a] = l[b], ![b] = l[a]]

swapFloat32(l, a, b) == [l EXCEPT ![a] = l[b], ![b] = l[a]]

\* multiSwap with the third swap leaving u1 and u2 where they are.
multiSwapLosesU(l) ==
    LET s1 == IF l.y1 < l.y0
              THEN swapFloat32(swapFloat32(swapInt(swapInt(l, "y1", "y0"),
                       "x1", "x0"), "u1", "u0"), "v1", "v0")
              ELSE l
        s2 == IF s1.y2 < s1.y0
              THEN swapFloat32(swapFloat32(swapInt(swapInt(s1, "y2", "y0"),
                       "x2", "x0"), "u2", "u0"), "v2", "v0")
              ELSE s1
        s3 == IF s2.y1 < s2.y2
              THEN swapFloat32(swapInt(swapInt(s2, "y2", "y1"),
                       "x2", "x1"), "v2", "v1")
              ELSE s2
    IN s3

multiSwap(l) ==
    LET s1 == IF l.y1 < l.y0
              THEN swapFloat32(swapFloat32(swapInt(swapInt(l, "y1", "y0"),
                       "x1", "x0"), "u1", "u0"), "v1", "v0")
              ELSE l
        s2 == IF s1.y2 < s1.y0
              THEN swapFloat32(swapFloat32(swapInt(swapInt(s1, "y2", "y0"),
                       "x2", "x0"), "u2", "u0"), "v2", "v0")
              ELSE s1
        s3 == IF s2.y1 < s2.y2
              THEN swapFloat32(swapFloat32(swapInt(swapInt(s2, "y2", "y1"),
                       "x2", "x1"), "u2", "u1"), "v2", "v1")
              ELSE s2
    IN s3

----------------------------------------------------------------------------
(* Rasterize                                                               *)

\* TopGradients with the gradients of an edge of height zero set to zero.
TopGradientsZeroed(l) ==
    LET dy1 == FromInt[WrapInt(l.y2 - l.y0)]
        dy2 == FromInt[WrapInt(l.y1 - l.y0)]
        d1 == WrapInt(l.y2 - l.y0) # 0
        d2 == WrapInt(l.y1 - l.y0) # 0
    IN [l EXCEPT !.dy1 = dy1, !.dy2 = dy2,
          !.dxdy1 = IF d1 THEN FDiv[FromInt[WrapInt(l.x2 - l.x0)], dy1] ELSE FZero,
          !.dxdu1 = IF d1 THEN FDiv[FSub[l.u2, l.u0], dy1] ELSE FZero,
          !.dxdv1 = IF d1 THEN FDiv[FSub[l.v2, l.v0], dy1] ELSE FZero,
          !.dxdy2 = IF d2 THEN FDiv[FromInt[WrapInt(l.x1 - l.x0)], dy2] ELSE FZero,
          !.dxdu2 = IF d2 THEN FDiv[FSub[l.u1, l.v0], dy2] ELSE FZero,
          !.dxdv2 = IF d2 THEN FDiv[FSub[l.v1, l.v0], dy2] ELSE FZero]

\* The gradients of the edges 0->2 and 0->1, divided by the edge's height
\* unless that is zero.
TopGradients(l) ==
    LET dy1 == FromInt[WrapInt(l.y2 - l.y0)]
        dy2 == FromInt[WrapInt(l.y1 - l.y0)]
        d1 == WrapInt(l.y2 - l.y0) # 0
        d2 == WrapInt(l.y1 - l.y0) # 0
        dxdy1 == FromInt[WrapInt(l.x2 - l.x0)]
        dxdu1 == FSub[l.u2, l.u0]
        dxdv1 == FSub[l.v2, l.v0]
        dxdy2 == FromInt[WrapInt(l.x1 - l.x0)]
        dxdu2 == FSub[l.u1, l.v0]
        dxdv2 == FSub[l.v1, l.v0]
    IN [l EXCEPT !.dy1 = dy1, !.dy2 = dy2,
                 !.dxdy1 = IF d1 THEN FDiv[dxdy1, dy1] ELSE dxdy1,
                 !.dxdu1 = IF d1 THEN FDiv[dxdu1, dy1] ELSE dxdu1,
                 !.dxdv1 = IF d1 THEN FDiv[dxdv1, dy1] ELSE dxdv1,
                 !.dxdy2 = IF d2 THEN FDiv[dxdy2, dy2] ELSE dxdy2,
                 !.dxdu2 = IF d2 THEN FDiv[dxdu2, dy2] ELSE dxdu2,
                 !.dxdv2 = IF d2 THEN FDiv[dxdv2, dy2] ELSE dxdv2]

\* Which of the two edges is the left one: the edge 0->2 when its x
\* gradient is the smaller.
LeftIs1(l) == FLt[l.dxdy1, l.dxdy2]

LeftRight(l) ==
    IF LeftIs1(l)
    THEN [l EXCEPT !.dxldy = l.dxdy1, !.dxrdy = l.dxdy2,
                   !.dxldu = l.dxdu1, !.dxrdu = l.dxdu2,
                   !.dxldv = l.dxdv1, !.dxrdv = l.dxdv2]
    ELSE [l EXCEPT !.dxldy = l.dxdy2, !.dxrdy = l.dxdy1,
                   !.dxldu = l.dxdu2, !.dxrdu = l.dxdu1,
                   !.dxldv = l.dxdv2, !.dxrdv = l.dxdv1]

\* Both span bounds and the running (u, v) start at vertex 0.
InitSpan(l) ==
    [l EXCEPT !.sdx = FromInt[l.x0], !.sdu = l.u0, !.sdv = l.v0,
              !.edx = FromInt[l.x0], !.edu = l.u0, !.edv = l.v0,
              !.pu = l.u0, !.pv = l.v0]

\* The head of a scanline's body: the per-pixel deltas, divided by the
\* span's width unless that is zero, and the x loop's start.
ScanBegin(l) ==
    LET w == FSub[l.edx, l.sdx]
        du == FSub[l.edu, l.sdu]
        dv == FSub[l.edv, l.sdv]
    IN [l EXCEPT !.pDeltaU = IF w.m # 0 THEN FDiv[du, w] ELSE du,
                 !.pDeltaV = IF w.m # 0 THEN FDiv[dv, w] ELSE dv,
                 !.pu = l.sdu, !.pv = l.sdv,
                 !.x = Trunc[l.sdx]]

\* The x loop's test.
InSpan(l) == l.x <= Trunc[l.edx]

\* The x loop's body after the shader's call, and its x++.
PixelStep(l) ==
    [l EXCEPT !.pu = FAdd[l.pu, l.pDeltaU], !.pv = FAdd[l.pv, l.pDeltaV],
              !.x = WrapInt(l.x + 1)]

\* The tail of a scanline's body, and the scanline loop's y++.
Advance(l) ==
    [l EXCEPT !.sdx = FAdd[l.sdx, l.dxldy], !.sdu = FAdd[l.sdu, l.dxldu],
              !.sdv = FAdd[l.sdv, l.dxldv],
              !.edx = FAdd[l.edx, l.dxrdy], !.edu = FAdd[l.edu, l.dxrdu],
              !.edv = FAdd[l.edv, l.dxrdv],
              !.y = WrapInt(l.y + 1)]

\* The gradient of the edge 2->1, divided by its height unless that is zero.
BottomGradient(l) ==
    LET d == WrapInt(l.y1 - l.y2) # 0
        dy == FromInt[WrapInt(l.y1 - l.y2)]
        gx == FromInt[WrapInt(l.x1 - l.x2)]
        gu == FSub[l.u1, l.u2]
        gv == FSub[l.v1, l.v2]
    IN [x |-> IF d THEN FDiv[gx, dy] ELSE gx,
        u |-> IF d THEN FDiv[gu, dy] ELSE gu,
        v |-> IF d THEN FDiv[gv, dy] ELSE gv]

\* Before the bottom half: the side that was the edge 0->2 takes the edge
\* 2->1's gradient and restarts at vertex 2; the other side runs on.
BottomSetup(l) ==
    LET g == BottomGradient(l) IN
    IF LeftIs1(l)
    THEN [l EXCEPT !.dxldy = g.x, !.dxldu = g.u, !.dxldv = g.v,
                   !.sdx = FromInt[l.x2], !.sdu = l.u2, !.sdv = l.v2,
                   !.pu = l.u2, !.pv = l.v2]
    ELSE [l EXCEPT !.dxrdy = g.x, !.dxrdu = g.u, !.dxrdv = g.v,
                   !.edx = FromInt[l.x2], !.edu = l.u2, !.edv = l.v2,
                   !.pu = l.u2, !.pv = l.v2]

\* The bottom scanline loop started over at the top vertex.
BottomStartAtTop(l) == l.y0

\* The first value of the bottom scanline loop's y.
BottomStart(l) == l.y2

\* ps(x, y, pu, pv): what the shader passed does with one invocation.
Invoke(half) ==
    IF ps = "record"
    THEN /\ calls' = Append(calls, [x |-> loc.x, y |-> loc.y,
                                    u |-> loc.pu, v |-> loc.pv, half |-> half])
         /\ UNCHANGED target
    ELSE /\ target' = DefaultShade(NewDefaultShader(texSize), target,
                                   loc.x, loc.y, loc.pu, loc.pv)
         /\ UNCHANGED calls

Sort ==
    /\ pc = "start"
    /\ loc' = multiSwap(loc)
    /\ pc' = "gradients"
    /\ UNCHANGED <<args, ps, texSize, calls, target, call, first>>

Gradients ==
    /\ pc = "gradients"
    /\ loc' = TopGradients(loc)
    /\ pc' = "classify"
    /\ UNCHANGED <<args, ps, texSize, calls, target, call, first>>

Classify ==
    /\ pc = "classify"
    /\ loc' = LeftRight(loc)
    /\ pc' = "spans"
    /\ UNCHANGED <<args, ps, texSize, calls, target, call, first>>

Spans ==
    /\ pc = "spans"
    /\ loc' = [InitSpan(loc) EXCEPT !.y = loc.y0]
    /\ pc' = "top"
    /\ UNCHANGED <<args, ps, texSize, calls, target, call, first>>

TopScan ==
    /\ pc = "top"
    /\ loc.y <= loc.y2
    /\ loc' = ScanBegin(loc)
    /\ pc' = "top_x"
    /\ UNCHANGED <<args, ps, texSize, calls, target, call, first>>

TopPixel ==
    /\ pc = "top_x"
    /\ InSpan(loc)
    /\ Invoke("top")
    /\ loc' = PixelStep(loc)
    /\ UNCHANGED <<args, ps, texSize, pc, call, first>>

TopAdvance ==
    /\ pc = "top_x"
    /\ ~InSpan(loc)
    /\ loc' = Advance(loc)
    /\ pc' = "top"
    /\ UNCHANGED <<args, ps, texSize, calls, target, call, first>>

Bottom ==
    /\ pc = "top"
    /\ ~(loc.y <= loc.y2)
    /\ loc' = [BottomSetup(loc) EXCEPT !.y = BottomStart(loc)]
    /\ pc' = "bottom"
    /\ UNCHANGED <<args, ps, texSize, calls, target, call, first>>

BottomScan ==
    /\ pc = "bottom"
    /\ loc.y <= loc.y1
    /\ loc' = ScanBegin(loc)
    /\ pc' = "bottom_x"
    /\ UNCHANGED <<args, ps, texSize, calls, target, call, first>>

BottomPixel ==
    /\ pc = "bottom_x"
    /\ InSpan(loc)
    /\ Invoke("bottom")
    /\ loc' = PixelStep(loc)
    /\ UNCHANGED <<args, ps, texSize, pc, call, first>>

BottomAdvance ==
    /\ pc = "bottom_x"
    /\ ~InSpan(loc)
    /\ loc' = Advance(loc)
    /\ pc' = "bottom"
    /\ UNCHANGED <<args, ps, texSize, calls, target, call, first>>

Return ==
    /\ pc = "bottom"
    /\ ~(loc.y <= loc.y1)
    /\ pc' = "done"
    /\ UNCHANGED <<args, ps, texSize, loc, calls, target, call, first>>

Next ==
    \/ Sort
    \/ Gradients
    \/ Classify
    \/ Spans
    \/ TopScan
    \/ TopPixel
    \/ TopAdvance
    \/ Bottom
    \/ BottomScan
    \/ BottomPixel
    \/ BottomAdvance
    \/ Return

----------------------------------------------------------------------------
(* The calls checked                                                       *)

F0 == FZero

F1 == FromInt[1]

FHalf == Dyadic[1, -1]

\* The texture coordinates given to the three arguments, by position.
UVChoices ==
    { << <<F0, F0>>, <<F1, F0>>, <<F0, F1>> >>,
      << <<F1, F0>>, <<FHalf, F1>>, <<F1, F1>> >> }

ZeroUV == << <<F0, F0>>, <<F0, F0>>, <<F0, F0>> >>

Triangle(a, b, c, uv) ==
    << Vertex(a[1], a[2], uv[1][1], uv[1][2]),
       Vertex(b[1], b[2], uv[2][1], uv[2][2]),
       Vertex(c[1], c[2], uv[3][1], uv[3][2]) >>

\* Every triangle with its vertices in the square S x S, in every order.
Triangles(S, uvs) ==
    { Triangle(a, b, c, uv) : a \in S \X S, b \in S \X S, c \in S \X S,
                              uv \in uvs }

\* The triangle of the UV linearity test.
LinearityTriangle ==
    << Vertex(0, 0, F0, F0), Vertex(10, 0, F1, F0), Vertex(0, 10, F0, F1) >>

\* A triangle whose long edge runs on from the top half into the bottom half.
LongEdgeTriangle ==
    << Vertex(0, 0, F0, F0), Vertex(0, 5, F1, F0), Vertex(10, 10, F0, F1) >>

\* Vertical segments and points on the last two rows an int can name.
EdgeTriangles ==
    { Triangle(<<0, ya>>, <<0, yb>>, <<0, yc>>, ZeroUV) :
          ya \in {MaxInt - 1, MaxInt}, yb \in {MaxInt - 1, MaxInt},
          yc \in {MaxInt - 1, MaxInt} }

Start(a, shader, size) ==
    /\ args = a
    /\ ps = shader
    /\ texSize = size
    /\ pc = "start"
    /\ loc = Frame(a)
    /\ calls = <<>>
    /\ target = <<>>
    /\ call = 1
    /\ first = <<>>

\* One call of Rasterize with a shader that records its invocations.
Init ==
    \E a \in Triangles(0..MaxCoord, UVChoices)
                 \cup {LinearityTriangle, LongEdgeTriangle} :
        Start(a, "record", [X |-> 0, Y |-> 0])

Spec == Init /\ [][Next]_vars

----------------------------------------------------------------------------
(* The reordering check: a second call with the same vertices in any of    *)
(* the six orders.                                                         *)

Perms == { p \in [1..3 -> 1..3] : \A i, j \in 1..3 : p[i] = p[j] => i = j }

Permute(a, p) == [i \in 1..3 |-> a[p[i]]]

Recall ==
    /\ pc = "done"
    /\ call = 1
    /\ \E p \in Perms :
          /\ args' = Permute(args, p)
          /\ loc' = Frame(Permute(args, p))
    /\ first' = calls
    /\ calls' = <<>>
    /\ call' = 2
    /\ pc' = "start"
    /\ UNCHANGED <<ps, texSize, target>>

InitPerm ==
    \E a \in Triangles(0..SmallCoord, UVChoices) :
        Start(a, "record", [X |-> 0, Y |-> 0])

NextPerm ==
    \/ Next
    \/ Recall

SpecPerm == InitPerm /\ [][NextPerm]_vars

----------------------------------------------------------------------------
(* The termination check: Rasterize drawing through the default shader.   *)
(* Rasterize is sequential code: a step that can be taken is taken.        *)

InitTerm ==
    \E a \in Triangles(0..SmallCoord, {ZeroUV}) \cup EdgeTriangles :
        Start(a, "default", [X |-> TexMax + 1, Y |-> TexMax + 1])

SpecTerm == InitTerm /\ [][Next]_vars /\ WF_vars(Next)

----------------------------------------------------------------------------
(* The shader check: one invocation of the closure NewDefaultShader makes. *)

\* u and v are drawn from the quarters -2/4 .. 6/4.
Quarters == -2..6

Quarter(n) == Dyadic[n, -2]

\* The colour of the target's pixels before the invocation.
Background == <<-1, -1>>

Canvas == (0..1) \X (0..1)

Shade ==
    /\ pc = "shade"
    /\ Invoke("top")
    /\ pc' = "shaded"
    /\ UNCHANGED <<args, ps, texSize, loc, call, first>>

InitShader ==
    /\ args = LinearityTriangle
    /\ ps = "default"
    /\ texSize \in [X : 1..(TexMax + 1), Y : 1..(TexMax + 1)]
    /\ pc = "shade"
    /\ \E p \in Canvas, nu \in Quarters, nv \in Quarters :
          loc = [Frame(args) EXCEPT !.x = p[1], !.y = p[2],
                                    !.pu = Quarter(nu), !.pv = Quarter(nv)]
    /\ calls = <<>>
    /\ target = [p \in Canvas |-> Background]
    /\ call = 1
    /\ first = <<>>

NextShader == Shade

SpecShader == InitShader /\ [][NextShader]_vars

----------------------------------------------------------------------------
(* Properties                                                              *)

Min2(a, b) == IF a < b THEN a ELSE b

Max2(a, b) == IF a > b THEN a ELSE b

MinX(a) == Min2(a[1].x, Min2(a[2].x, a[3].x))

MaxX(a) == Max2(a[1].x, Max2(a[2].x, a[3].x))

MinY(a) == Min2(a[1].y, Min2(a[2].y, a[3].y))

MaxY(a) == Max2(a[1].y, Max2(a[2].y, a[3].y))

\* Twice the signed area of the triangle p, q, r (points with fields x, y).
Cross(p, q, r) == (q.x - p.x) * (r.y - p.y) - (r.x - p.x) * (q.y - p.y)

Area2(a) == Cross(a[1], a[2], a[3])

\* The pixel p lies strictly inside the triangle a.
StrictlyInside(p, a) ==
    LET d1 == Cross(a[1], a[2], p)
        d2 == Cross(a[2], a[3], p)
        d3 == Cross(a[3], a[1], p)
    IN (d1 > 0 /\ d2 > 0 /\ d3 > 0) \/ (d1 < 0 /\ d2 < 0 /\ d3 < 0)

\* How often the shader was invoked at the pixel p.
Visits(p) ==
    Cardinality({ i \in DOMAIN calls : calls[i].x = p.x /\ calls[i].y = p.y })

\* |a - b| <= 1/1000: a float m * 2^e with a 24-bit m is below 1/1000 when
\* e < -33 and above it when e > -33; when e = -33 it is at most 1/1000
\* when 1000 * |m| <= 2^33, that is |m| <= 8589934.
Near(a, b) ==
    LET d == FSub[a, b] IN
    d.m = 0 \/ d.e < -33 \/ (d.e = -33 /\ Abs(d.m) <= 8589934)

\* The working vertices 0, 1, 2 of Rasterize.
Working(l) ==
    << Vertex(l.x0, l.y0, l.u0, l.v0), Vertex(l.x1, l.y1, l.u1, l.v1),
       Vertex(l.x2, l.y2, l.u2, l.v2) >>

Sorted == pc \notin {"start", "shade", "shaded"}

Graded == pc \notin {"start", "gradients", "shade", "shaded"}

InBottom == pc \in {"bottom", "bottom_x", "done"}

\* C1: when a call on a triangle of positive area has returned, every pixel
\* strictly inside the triangle has had exactly one shader invocation.
C1_InteriorExactlyOnce ==
    (pc = "done" /\ Area2(args) # 0) =>
        \A px \in MinX(args)..MaxX(args), py \in MinY(args)..MaxY(args) :
            StrictlyInside([x |-> px, y |-> py], args) =>
                Visits([x |-> px, y |-> py]) = 1

\* C2: for the vertices (0,0), (10,0), (0,10) with UV (0,0), (1,0), (0,1),
\* every invocation at pixel (5, 0) gets u within 1e-3 of 0.5 and v within
\* 1e-3 of 0.
C2_LinearAtMidEdge ==
    args = LinearityTriangle =>
        \A i \in DOMAIN calls :
            (calls[i].x = 5 /\ calls[i].y = 0) =>
                Near(calls[i].u, FHalf) /\ Near(calls[i].v, F0)

\* The invocations c and d are the same pixel with (u, v) within tolerance.
SameInvocation(c, d) ==
    c.x = d.x /\ c.y = d.y /\ Near(c.u, d.u) /\ Near(c.v, d.v)

\* C3: a call with the vertices reordered makes the same set of (x, y, u, v)
\* invocations, up to tolerance, as the call before it.
C3_OrderInvariant ==
    (pc = "done" /\ call = 2) =>
        /\ \A i \in DOMAIN first : \E j \in DOMAIN calls :
               SameInvocation(first[i], calls[j])
        /\ \A j \in DOMAIN calls : \E i \in DOMAIN first :
               SameInvocation(first[i], calls[j])

\* What C4 asks of one step.
C4_Step ==
    LET n == Len(calls) IN
    \* an invocation is made at the x loop's current (x, y), and x goes up by 1
    /\ calls' # calls =>
          /\ calls' = Append(calls, calls'[n + 1])
          /\ calls'[n + 1].x = loc.x /\ calls'[n + 1].y = loc.y
          /\ loc'.x = loc.x + 1 /\ loc'.y = loc.y
          /\ calls'[n + 1].half = (IF pc = "top_x" THEN "top" ELSE "bottom")
    \* top before bottom, and y never goes down from one invocation to the next
    /\ (calls' # calls /\ n > 0) =>
          /\ calls[n].half = "bottom" => calls'[n + 1].half = "bottom"
          /\ calls[n].y <= calls'[n + 1].y
          /\ (calls[n].half = calls'[n + 1].half /\ calls[n].y = calls'[n + 1].y)
                => calls'[n + 1].x = calls[n].x + 1
    \* a scanline's x starts at the span's start
    /\ (pc \in {"top", "bottom"} /\ pc' \in {"top_x", "bottom_x"}) =>
          loc'.x = Trunc[loc.sdx] /\ loc'.y = loc.y
    \* from one scanline to the next of a half, y goes up by 1
    /\ (pc \in {"top_x", "bottom_x"} /\ pc' \in {"top", "bottom"}) =>
          loc'.y = loc.y + 1

C5_Returns == <>(pc = "done")

\* C5, amended: a call whose vertices all have y below the largest int
\* returns.
C5_ReturnsBelowMaxInt ==
    (\A i \in 1..3 : args[i].y < MaxInt) ~> (pc = "done")

\* A call on three distinct collinear points, and one on three identical
\* points, has returned.
C5_Witness ==
    /\ pc = "done"
    /\ ps = "default"
    /\ Area2(args) = 0
    /\ args[1] # args[2] /\ args[2] # args[3] /\ args[1] # args[3]

\* trunc(n * maxX / 4) toward zero, clamped to 0..maxX, in integers.
ClampedTexel(n, max) ==
    LET q == n * max
        t == IF q >= 0 THEN q \div 4 ELSE -((-q) \div 4)
    IN IF t > max THEN max ELSE IF t < 0 THEN 0 ELSE t

\* C6: an invocation (x, y, u, v) of the default shader writes to the target
\* at (x, y) and nowhere else, the colour of the texel
\* (clamp(trunc(u*maxX)), clamp(trunc(v*maxY))), which lies in the texture;
\* with maxX = maxY = 3, u = 1.5, v = -0.5 that is texel (3, 0).
C6_ClampedSample ==
    pc = "shaded" =>
        LET sh == NewDefaultShader(texSize)
            c == target[<<loc.x, loc.y>>]
        IN /\ \A nu, nv \in Quarters :
                  (loc.pu = Quarter(nu) /\ loc.pv = Quarter(nv)) =>
                      c = << ClampedTexel(nu, sh.maxX), ClampedTexel(nv, sh.maxY) >>
           /\ c[1] \in 0..sh.maxX /\ c[2] \in 0..sh.maxY
           /\ DOMAIN target = Canvas
           /\ \A p \in Canvas : p # <<loc.x, loc.y>> => target[p] = Background
           /\ (sh.maxX = 3 /\ sh.maxY = 3 /\ loc.pu = Quarter(6)
                  /\ loc.pv = Quarter(-2)) => c = <<3, 0>>

\* The shader over a 4x4 texture was invoked with u = 1.5, v = -0.5.
C6_Witness ==
    /\ pc = "shaded"
    /\ texSize = [X |-> 4, Y |-> 4]
    /\ loc.pu = Quarter(6) /\ loc.pv = Quarter(-2)
    /\ target[<<loc.x, loc.y>>] = <<3, 0>>

\* C7: after the sort step y0 <= y2 <= y1, and the working vertices are the
\* three arguments in some order, each with its own x, y, u and v.
C7_SortedPermutation ==
    Sorted =>
        /\ loc.y0 <= loc.y2 /\ loc.y2 <= loc.y1
        /\ \E p \in Perms : Working(loc) = Permute(args, p)

\* The sort step has run on arguments given in falling y, with distinct UV.
C7_Witness ==
    /\ pc = "gradients"
    /\ args[1].y > args[2].y /\ args[2].y > args[3].y
    /\ Working(loc) = Permute(args, <<3, 1, 2>>)
    /\ <<args[1].u, args[1].v>> # <<args[2].u, args[2].v>>

\* C8: the gradients of the edges 0->1 and 0->2 are the differences of the
\* vertices' x, u and v over the edge's height, when that is not zero.
C8_TopGradients ==
    Graded =>
        /\ loc.y1 # loc.y0 =>
              /\ loc.dxdy2 = FDiv[FromInt[loc.x1 - loc.x0], FromInt[loc.y1 - loc.y0]]
              /\ loc.dxdu2 = FDiv[FSub[loc.u1, loc.u0], FromInt[loc.y1 - loc.y0]]
              /\ loc.dxdv2 = FDiv[FSub[loc.v1, loc.v0], FromInt[loc.y1 - loc.y0]]
        /\ loc.y2 # loc.y0 =>
              /\ loc.dxdy1 = FDiv[FromInt[loc.x2 - loc.x0], FromInt[loc.y2 - loc.y0]]
              /\ loc.dxdu1 = FDiv[FSub[loc.u2, loc.u0], FromInt[loc.y2 - loc.y0]]
              /\ loc.dxdv1 = FDiv[FSub[loc.v2, loc.v0], FromInt[loc.y2 - loc.y0]]

\* The gradient triple the bottom half's setup has replaced.
Replaced(l) ==
    IF LeftIs1(l) THEN <<l.dxldy, l.dxldu, l.dxldv>>
    ELSE <<l.dxrdy, l.dxrdu, l.dxrdv>>

\* C9 as stated: the gradient triple of an edge of height zero is zero.
C9_ZeroGradient ==
    /\ (Graded /\ loc.y2 = loc.y0) =>
          loc.dxdy1 = FZero /\ loc.dxdu1 = FZero /\ loc.dxdv1 = FZero
    /\ (Graded /\ loc.y1 = loc.y0) =>
          loc.dxdy2 = FZero /\ loc.dxdu2 = FZero /\ loc.dxdv2 = FZero
    /\ (InBottom /\ loc.y1 = loc.y2) => Replaced(loc) = <<FZero, FZero, FZero>>

\* C9, amended: the gradient of an edge of height zero is the undivided
\* difference of its end points' attributes (of x and v for the edge 0->1).
C9_RawGradient ==
    /\ (Graded /\ loc.y2 = loc.y0) =>
          /\ loc.dxdy1 = FromInt[loc.x2 - loc.x0]
          /\ loc.dxdu1 = FSub[loc.u2, loc.u0]
          /\ loc.dxdv1 = FSub[loc.v2, loc.v0]
    /\ (Graded /\ loc.y1 = loc.y0) =>
          /\ loc.dxdy2 = FromInt[loc.x1 - loc.x0]
          /\ loc.dxdv2 = FSub[loc.v1, loc.v0]
    /\ (InBottom /\ loc.y1 = loc.y2) =>
          Replaced(loc) = << FromInt[loc.x1 - loc.x2], FSub[loc.u1, loc.u2],
                             FSub[loc.v1, loc.v2] >>

\* A flat-top and flat-bottom call (all y equal, the x distinct) is in its
\* bottom half, the gradients of its three edges undivided and not zero.
C9_Witness ==
    /\ InBottom
    /\ loc.y2 = loc.y0 /\ loc.y1 = loc.y2
    /\ loc.dxdy1 = FromInt[loc.x2 - loc.x0] /\ loc.dxdy1 # FZero
    /\ loc.dxdy2 = FromInt[loc.x1 - loc.x0] /\ loc.dxdy2 # FZero
    /\ Replaced(loc)[1] = FromInt[loc.x1 - loc.x2] /\ Replaced(loc)[1] # FZero

\* C10: every invocation's pixel lies in the bounding box of the vertices.
C10_InBoundingBox ==
    \A i \in DOMAIN calls :
        /\ MinX(args) <= calls[i].x /\ calls[i].x <= MaxX(args)
        /\ MinY(args) <= calls[i].y /\ calls[i].y <= MaxY(args)

====
